---- MODULE Spec2Model ----
(***************************************************************************)
(* Retail Procurement API (LAB_1_PROCUREMENT_AGENT/BE/app.py and its       *)
(* backup copy): POST /orders (add_order) and GET /orders                  *)
(* (get_order_history) over a worksheet used as an append-only ledger.     *)
(*                                                                         *)
(* Values.  A worksheet cell, a request field and a Python local are all   *)
(* represented by one record shape [t, n, s]:                              *)
(*   t = "str"    s is the text, a sequence of one-character strings       *)
(*   t = "int"    n is the integer                                         *)
(*   t = "float"  n is the number of HALVES (n = 25 is 12.5); every such   *)
(*                value and every difference of two is exact in binary     *)
(*                floating point, so Python's arithmetic is integer        *)
(*                arithmetic on n                                          *)
(*   t = "none"   Python's None                                            *)
(***************************************************************************)
EXTENDS Integers, Sequences, FiniteSets, TLC

VARIABLES
    ledger,     \* the worksheet below its header: a sequence of rows of 8 cells
    ledger0,    \* the worksheet before the first call
    pc,         \* per worker: "idle", or "fetched" inside add_order
    req,        \* per worker: the order of its latest add_order call
    records,    \* per worker: what get_all_records returned to that call
    resp,       \* per worker: what that call returned
    prev,       \* order and response of the add_order call the worker that
                \* entered add_order last had served before
    rowIdx,     \* per worker: where the row of that call went, 0 if nowhere
    nFetch,     \* per worker: get_all_records attempts of that call
    nAppend,    \* per worker: append_row attempts of that call
    listed,     \* what get_all_records returned to the latest get_order_history
    listResp,   \* what the latest get_order_history returned
    nOk,        \* add_order calls that returned success
    nCalls      \* calls entered

vars == <<ledger, ledger0, pc, req, records, resp, prev, rowIdx, nFetch, nAppend,
          listed, listResp, nOk, nCalls>>

\* ------------------------------------------------------------------ bounds
\* rows in the worksheet before the first call: with one worker, with two
MaxInitRows == 2
MaxSharedRows == 1
\* calls served in one run
MaxCalls == 2

\* ------------------------------------------------------------------ values
StrV(cs) == [t |-> "str", n |-> 0, s |-> cs]
IntV(i) == [t |-> "int", n |-> i, s |-> <<>>]
FloatV(h) == [t |-> "float", n |-> h, s |-> <<>>]
NoneV == [t |-> "none", n |-> 0, s |-> <<>>]

DigitChars == <<"0", "1", "2", "3", "4", "5", "6", "7", "8", "9">>
UpperChars == <<"A", "B", "C", "D", "E", "F", "G", "H", "I", "J", "K", "L", "M",
                "N", "O", "P", "Q", "R", "S", "T", "U", "V", "W", "X", "Y", "Z">>
LowerChars == <<"a", "b", "c", "d", "e", "f", "g", "h", "i", "j", "k", "l", "m",
                "n", "o", "p", "q", "r", "s", "t", "u", "v", "w", "x", "y", "z">>
Whitespace == {" ", "\t"}

Abs(k) == IF k < 0 THEN 0 - k ELSE k

\* str.lower() of one character, then of a text
LowerChar(c) ==
    IF \E i \in 1..Len(UpperChars) : UpperChars[i] = c
    THEN LowerChars[CHOOSE i \in 1..Len(UpperChars) : UpperChars[i] = c]
    ELSE c

Lower(cs) == [i \in 1..Len(cs) |-> LowerChar(cs[i])]

\* str.strip(): drop leading and trailing whitespace
RECURSIVE LStrip(_)
LStrip(cs) ==
    IF cs # <<>> /\ Head(cs) \in Whitespace THEN LStrip(Tail(cs)) ELSE cs

RECURSIVE RStrip(_)
RStrip(cs) ==
    IF cs # <<>> /\ cs[Len(cs)] \in Whitespace
    THEN RStrip(SubSeq(cs, 1, Len(cs) - 1))
    ELSE cs

Strip(cs) == RStrip(LStrip(cs))

\* str(int) for k >= 0
RECURSIVE NatStr(_)
NatStr(k) ==
    IF k < 10 THEN <<DigitChars[k + 1]>>
    ELSE NatStr(k \div 10) \o <<DigitChars[(k % 10) + 1]>>

IntStr(k) == IF k < 0 THEN <<"-">> \o NatStr(0 - k) ELSE NatStr(k)

\* str(float) of h halves: "3.0", "-2.5", "0.0"
FloatStr(h) ==
    (IF h < 0 THEN <<"-">> ELSE <<>>)
    \o NatStr(Abs(h) \div 2)
    \o <<".", IF Abs(h) % 2 = 0 THEN "0" ELSE "5">>

\* str(x) of a cell
PyStr(x) ==
    CASE x.t = "str" -> x.s
      [] x.t = "int" -> IntStr(x.n)
      [] x.t = "float" -> FloatStr(x.n)
      [] OTHER -> <<"N", "o", "n", "e">>

DigitVal(c) ==
    IF \E i \in 1..Len(DigitChars) : DigitChars[i] = c
    THEN (CHOOSE i \in 1..Len(DigitChars) : DigitChars[i] = c) - 1
    ELSE 0 - 1

IsDigits(cs) == cs # <<>> /\ \A i \in 1..Len(cs) : DigitVal(cs[i]) >= 0

RECURSIVE DigitsVal(_)
DigitsVal(cs) ==
    IF cs = <<>> THEN 0
    ELSE 10 * DigitsVal(SubSeq(cs, 1, Len(cs) - 1)) + DigitVal(cs[Len(cs)])

\* float(text): surrounding whitespace is ignored, then an optional sign,
\* digits, and optionally a point and one digit.  The texts of the model have
\* at most one fractional digit, 0 or 5, so the value is a number of halves.
Unsigned(cs) == IF cs # <<>> /\ cs[1] \in {"-", "+"} THEN Tail(cs) ELSE cs
TextSign(cs) == IF cs # <<>> /\ cs[1] = "-" THEN 0 - 1 ELSE 1
HasPoint(cs) == Len(cs) >= 2 /\ cs[Len(cs) - 1] = "."
IntPart(cs) == IF HasPoint(cs) THEN SubSeq(cs, 1, Len(cs) - 2) ELSE cs
FracHalves(cs) == IF HasPoint(cs) /\ cs[Len(cs)] = "5" THEN 1 ELSE 0

TextIsFloat(cs) ==
    LET u == Unsigned(Strip(cs))
    IN /\ IsDigits(IntPart(u))
       /\ HasPoint(u) => u[Len(u)] \in {"0", "5"}

TextFloat(cs) ==
    LET u == Unsigned(Strip(cs))
    IN TextSign(Strip(cs)) * (2 * DigitsVal(IntPart(u)) + FracHalves(u))

\* float(x) raises for None and for a text that is no number
CanFloat(x) ==
    CASE x.t = "str" -> TextIsFloat(x.s)
      [] x.t = "none" -> FALSE
      [] OTHER -> TRUE

ToFloat(x) ==
    CASE x.t = "str" -> TextFloat(x.s)
      [] x.t = "int" -> 2 * x.n
      [] OTHER -> x.n

Dash == <<"-">>

\* ------------------------------------------------------- the worksheet
\* The header row of the worksheet; append_row writes its list in this order
\* and get_all_records keys every row by it.
Header == <<"product_name", "supplier", "price", "quantity", "purchase_date",
            "staff_in_charge", "approver", "latest_price_change">>

Col(k) == CHOOSE i \in 1..Len(Header) : Header[i] = k

\* sheet.get_all_records(): one dict per row, keyed by the header
RowRecord(values) == [k \in {Header[i] : i \in 1..Len(Header)} |-> values[Col(k)]]

GetAllRecords(sheet) == [i \in 1..Len(sheet) |-> RowRecord(sheet[i])]

\* sheet.append_row(values): the new row goes after the last one
AppendRow(sheet, values) == Append(sheet, values)

\* ------------------------------------------------------------ add_order
Widget == <<"W", "i", "d", "g", "e", "t">>
WidgetLowerPadded == <<"w", "i", "d", "g", "e", "t", " ">>
WidgetUpperPadded == <<" ", "W", "I", "D", "G", "E", "T">>
Gadget == <<"G", "a", "d", "g", "e", "t">>

Supplier == StrV(<<"A", "c", "m", "e">>)
PurchaseDate == StrV(<<"2", "0", "2", "5", "-", "0", "1", "-", "3", "1">>)
Staff == StrV(<<"A", "n", "n">>)
Approver == StrV(<<"B", "o", "b">>)

\* OrderRequest after validation: price is a float, quantity an int
OrderRequest(name, price, quantity) ==
    [product_name |-> StrV(name), supplier |-> Supplier, price |-> FloatV(price),
     quantity |-> IntV(quantity), purchase_date |-> PurchaseDate,
     staff_in_charge |-> Staff, approver |-> Approver]

RequestNames == {WidgetLowerPadded, Gadget}
RequestPrices == {24, 30}
Requests == {OrderRequest(nm, pr, 5) : nm \in RequestNames, pr \in RequestPrices}

NoRequest == OrderRequest(<<>>, 0, 0)

\* faulty variant: lower() without strip()
NameMatchesNoStrip(row, order) ==
    Lower(row.product_name.s) = Lower(order.product_name.s)

\* row.get("product_name", "").strip().lower() == order.product_name.strip().lower()
\* (the cell is a text here; any other cell has no strip, see Scan)
NameMatches(row, order) ==
    Lower(Strip(row.product_name.s)) = Lower(Strip(order.product_name.s))

\* try: previous_price = float(row.get("price", 0))
\* except Exception: previous_price = None
PriceOf(row) == IF CanFloat(row.price) THEN FloatV(ToFloat(row.price)) ELSE NoneV

AttributeError(x) ==
    "'" \o x.t \o "' object has no attribute 'strip'"

\* faulty variant: the first matching row decides, later ones are not looked at
RECURSIVE ScanFirstMatch(_, _, _, _)
ScanFirstMatch(rows, order, i, previous) ==
    IF i > Len(rows)
    THEN [raised |-> FALSE, msg |-> "", previous_price |-> previous]
    ELSE IF rows[i].product_name.t # "str"
    THEN [raised |-> TRUE, msg |-> AttributeError(rows[i].product_name),
          previous_price |-> NoneV]
    ELSE IF NameMatches(rows[i], order)
    THEN [raised |-> FALSE, msg |-> "", previous_price |-> PriceOf(rows[i])]
    ELSE ScanFirstMatch(rows, order, i + 1, previous)

\* The for loop over records, from row i on, with previous_price = previous.
\* A product_name cell that is no text raises out of the loop.
RECURSIVE Scan(_, _, _, _)
Scan(rows, order, i, previous) ==
    IF i > Len(rows)
    THEN [raised |-> FALSE, msg |-> "", previous_price |-> previous]
    ELSE IF rows[i].product_name.t # "str"
    THEN [raised |-> TRUE, msg |-> AttributeError(rows[i].product_name),
          previous_price |-> NoneV]
    ELSE IF NameMatches(rows[i], order)
    THEN Scan(rows, order, i + 1, PriceOf(rows[i]))
    ELSE Scan(rows, order, i + 1, previous)

\* faulty variant: the difference taken the other way round
LatestPriceChangeReversed(previous_price, order) ==
    IF previous_price # NoneV
    THEN LET price_change == previous_price.n - order.price.n
         IN IF price_change # 0 THEN FloatStr(price_change) ELSE Dash
    ELSE Dash

\* faulty variant: no test for a zero difference
LatestPriceChangeUnguarded(previous_price, order) ==
    IF previous_price # NoneV
    THEN FloatStr(order.price.n - previous_price.n)
    ELSE Dash

\* latest_price_change after the loop
LatestPriceChange(previous_price, order) ==
    IF previous_price # NoneV
    THEN LET price_change == order.price.n - previous_price.n
         IN IF price_change # 0 THEN FloatStr(price_change) ELSE Dash
    ELSE Dash

\* faulty variant: price and quantity in each other's column
RowValuesSwapped(order, latest_price_change) ==
    <<order.product_name, order.supplier, order.quantity, order.price,
      order.purchase_date, order.staff_in_charge, order.approver,
      StrV(latest_price_change)>>

\* the list handed to sheet.append_row
RowValues(order, latest_price_change) ==
    <<order.product_name, order.supplier, order.price, order.quantity,
      order.purchase_date, order.staff_in_charge, order.approver,
      StrV(latest_price_change)>>

\* The response of BE/app.py.  backup/BE_google_sheet/app.py runs the same
\* lines up to the return and adds the submitted fields to the response.
NoResponse == [status |-> 0, message |-> "", latest_price_change |-> <<>>, detail |-> ""]

OrderResponse(latest_price_change) ==
    [status |-> 200, message |-> "Order added successfully",
     latest_price_change |-> latest_price_change, detail |-> ""]

ErrorResponse(msg) ==
    [status |-> 500, message |-> "", latest_price_change |-> <<>>,
     detail |-> "Error accessing Google Sheet: " \o msg]

\* ---------------------------------------------------- get_order_history
\* OrderHistoryItem(**row): the seven str/float/int fields are required;
\* float takes a number or a numeric text, int takes an int, a float without
\* fraction or a text of digits, str takes a text only.
ValidStr(x) == x.t = "str"
ValidFloat(x) == x.t \in {"int", "float"} \/ (x.t = "str" /\ TextIsFloat(x.s))
ValidInt(x) ==
    \/ x.t = "int"
    \/ x.t = "float" /\ x.n % 2 = 0
    \/ x.t = "str" /\ IsDigits(Unsigned(Strip(x.s)))

ToInt(x) ==
    CASE x.t = "int" -> x.n
      [] x.t = "float" -> x.n \div 2
      [] OTHER -> TextSign(Strip(x.s)) * DigitsVal(Unsigned(Strip(x.s)))

\* row["latest_price_change"] = str(row["latest_price_change"])
Coerce(row) ==
    [row EXCEPT !.latest_price_change = StrV(PyStr(row.latest_price_change))]

Validates(row) ==
    /\ ValidStr(row.product_name)
    /\ ValidStr(row.supplier)
    /\ ValidFloat(row.price)
    /\ ValidInt(row.quantity)
    /\ ValidStr(row.purchase_date)
    /\ ValidStr(row.staff_in_charge)
    /\ ValidStr(row.approver)
    /\ ValidStr(row.latest_price_change)

OrderHistoryItem(row) ==
    [row EXCEPT !.price = FloatV(ToFloat(row.price)),
                !.quantity = IntV(ToInt(row.quantity))]

\* faulty variant: the first row that does not validate ends the listing
RECURSIVE ParseRowsStopAtBad(_, _, _)
ParseRowsStopAtBad(rows, i, orders) ==
    IF i > Len(rows) THEN orders
    ELSE LET row == Coerce(rows[i])
         IN IF Validates(row)
            THEN ParseRowsStopAtBad(rows, i + 1, Append(orders, OrderHistoryItem(row)))
            ELSE orders

\* the for loop of get_order_history from row i on, orders collected so far
RECURSIVE ParseRows(_, _, _)
ParseRows(rows, i, orders) ==
    IF i > Len(rows) THEN orders
    ELSE LET row == Coerce(rows[i])
         IN IF Validates(row)
            THEN ParseRows(rows, i + 1, Append(orders, OrderHistoryItem(row)))
            ELSE ParseRows(rows, i + 1, orders)

NoHistory == [status |-> 0, orders |-> <<>>, detail |-> ""]
OrderHistoryResponse(orders) == [status |-> 200, orders |-> orders, detail |-> ""]
HistoryError(msg) ==
    [status |-> 500, orders |-> <<>>, detail |-> "Error accessing Google Sheet: " \o msg]

\* ------------------------------------------------------------ the system
\* Two worker threads serve requests; the worksheet is the only shared state.
Procs == {"w1", "w2"}

\* what get_gsheet / get_all_records and append_row can raise
FetchErrors == {"Service account credentials file not found at None"}
AppendErrors == {"APIError: [429]: Quota exceeded"}

\* Rows a worksheet can hold before the service runs: rows it wrote itself,
\* rows whose numeric-looking cells come back as numbers, a blank price or
\* quantity cell, a price kept as text, a product name that is a number.
MkRow(name, price, quantity, change) ==
    <<name, Supplier, price, quantity, PurchaseDate, Staff, Approver, change>>

InitRows ==
    { MkRow(StrV(Widget), FloatV(20), IntV(5), StrV(Dash)),
      MkRow(StrV(WidgetLowerPadded), IntV(12), IntV(5), FloatV(4)),
      MkRow(StrV(WidgetUpperPadded), StrV(<<>>), IntV(5), StrV(Dash)),
      MkRow(StrV(Gadget), StrV(<<"1", "2", ".", "5">>), StrV(<<>>), IntV(3)),
      MkRow(IntV(123), FloatV(20), IntV(5), StrV(Dash)) }

RECURSIVE SeqsUpTo(_, _)
SeqsUpTo(S, k) ==
    IF k = 0 THEN {<<>>}
    ELSE LET shorter == SeqsUpTo(S, k - 1)
         IN shorter \cup {Append(q, x) : q \in shorter, x \in S}

Start ==
    /\ ledger0 = ledger
    /\ pc = [p \in Procs |-> "idle"]
    /\ req = [p \in Procs |-> NoRequest]
    /\ records = [p \in Procs |-> <<>>]
    /\ resp = [p \in Procs |-> NoResponse]
    /\ listed = <<>>
    /\ listResp = NoHistory
    /\ prev = [req |-> NoRequest, resp |-> NoResponse]
    /\ rowIdx = [p \in Procs |-> 0]
    /\ nFetch = [p \in Procs |-> 0]
    /\ nAppend = [p \in Procs |-> 0]
    /\ nOk = 0
    /\ nCalls = 0

Init == ledger \in SeqsUpTo(InitRows, MaxSharedRows) /\ Start

InitSeq == ledger \in SeqsUpTo(InitRows, MaxInitRows) /\ Start

\* add_order is entered: get_gsheet() and get_all_records() succeed
AddOrderFetch(p, order) ==
    /\ pc[p] = "idle"
    /\ nCalls < MaxCalls
    /\ nCalls' = nCalls + 1
    /\ prev' = [req |-> req[p], resp |-> resp[p]]
    /\ req' = [req EXCEPT ![p] = order]
    /\ records' = [records EXCEPT ![p] = GetAllRecords(ledger)]
    /\ resp' = [resp EXCEPT ![p] = NoResponse]
    /\ rowIdx' = [rowIdx EXCEPT ![p] = 0]
    /\ nFetch' = [nFetch EXCEPT ![p] = 1]
    /\ nAppend' = [nAppend EXCEPT ![p] = 0]
    /\ pc' = [pc EXCEPT ![p] = "fetched"]
    /\ UNCHANGED <<ledger, ledger0, listed, listResp, nOk>>

\* add_order is entered: get_gsheet() or get_all_records() raises
AddOrderFetchFail(p, order, msg) ==
    /\ pc[p] = "idle"
    /\ nCalls < MaxCalls
    /\ nCalls' = nCalls + 1
    /\ prev' = [req |-> req[p], resp |-> resp[p]]
    /\ req' = [req EXCEPT ![p] = order]
    /\ records' = [records EXCEPT ![p] = <<>>]
    /\ resp' = [resp EXCEPT ![p] = ErrorResponse(msg)]
    /\ rowIdx' = [rowIdx EXCEPT ![p] = 0]
    /\ nFetch' = [nFetch EXCEPT ![p] = 1]
    /\ nAppend' = [nAppend EXCEPT ![p] = 0]
    /\ UNCHANGED <<ledger, ledger0, pc, listed, listResp, nOk>>

\* the loop over records raises (a product_name cell without strip)
AddOrderScanFail(p) ==
    /\ pc[p] = "fetched"
    /\ LET scan == Scan(records[p], req[p], 1, NoneV)
       IN /\ scan.raised
          /\ resp' = [resp EXCEPT ![p] = ErrorResponse(scan.msg)]
    /\ pc' = [pc EXCEPT ![p] = "idle"]
    /\ UNCHANGED <<ledger, ledger0, req, records, listed, listResp, prev, rowIdx,
                   nFetch, nAppend, nOk, nCalls>>

\* faulty variant: the rows are read again at append time, as under a lock
AddOrderAppendFresh(p) ==
    /\ pc[p] = "fetched"
    /\ LET scan == Scan(GetAllRecords(ledger), req[p], 1, NoneV)
           latest_price_change == LatestPriceChange(scan.previous_price, req[p])
       IN /\ ~scan.raised
          /\ ledger' = AppendRow(ledger, RowValues(req[p], latest_price_change))
          /\ resp' = [resp EXCEPT ![p] = OrderResponse(latest_price_change)]
    /\ rowIdx' = [rowIdx EXCEPT ![p] = Len(ledger')]
    /\ nAppend' = [nAppend EXCEPT ![p] = nAppend[p] + 1]
    /\ nOk' = nOk + 1
    /\ pc' = [pc EXCEPT ![p] = "idle"]
    /\ UNCHANGED <<ledger0, req, records, listed, listResp, prev, nFetch, nCalls>>

\* the loop ends, append_row succeeds, the response is returned
AddOrderAppend(p) ==
    /\ pc[p] = "fetched"
    /\ LET scan == Scan(records[p], req[p], 1, NoneV)
           latest_price_change == LatestPriceChange(scan.previous_price, req[p])
       IN /\ ~scan.raised
          /\ ledger' = AppendRow(ledger, RowValues(req[p], latest_price_change))
          /\ resp' = [resp EXCEPT ![p] = OrderResponse(latest_price_change)]
    /\ rowIdx' = [rowIdx EXCEPT ![p] = Len(ledger')]
    /\ nAppend' = [nAppend EXCEPT ![p] = nAppend[p] + 1]
    /\ nOk' = nOk + 1
    /\ pc' = [pc EXCEPT ![p] = "idle"]
    /\ UNCHANGED <<ledger0, req, records, listed, listResp, prev, nFetch, nCalls>>

\* faulty variant: the row is written although the error is reported
AddOrderAppendFailPartial(p, msg) ==
    /\ pc[p] = "fetched"
    /\ ~Scan(records[p], req[p], 1, NoneV).raised
    /\ ledger' = AppendRow(ledger, RowValues(req[p], Dash))
    /\ resp' = [resp EXCEPT ![p] = ErrorResponse(msg)]
    /\ nAppend' = [nAppend EXCEPT ![p] = nAppend[p] + 1]
    /\ pc' = [pc EXCEPT ![p] = "idle"]
    /\ UNCHANGED <<ledger0, req, records, listed, listResp, prev, rowIdx,
                   nFetch, nOk, nCalls>>

\* the loop ends, append_row raises
AddOrderAppendFail(p, msg) ==
    /\ pc[p] = "fetched"
    /\ ~Scan(records[p], req[p], 1, NoneV).raised
    /\ resp' = [resp EXCEPT ![p] = ErrorResponse(msg)]
    /\ nAppend' = [nAppend EXCEPT ![p] = nAppend[p] + 1]
    /\ pc' = [pc EXCEPT ![p] = "idle"]
    /\ UNCHANGED <<ledger, ledger0, req, records, listed, listResp, prev, rowIdx,
                   nFetch, nOk, nCalls>>

\* faulty variant: the coerced rows are written back to the worksheet
GetOrderHistoryWriteBack(p) ==
    /\ pc[p] = "idle"
    /\ nCalls < MaxCalls
    /\ nCalls' = nCalls + 1
    /\ listed' = GetAllRecords(ledger)
    /\ listResp' = OrderHistoryResponse(ParseRows(listed', 1, <<>>))
    /\ ledger' = [i \in 1..Len(ledger) |->
                    [c \in 1..Len(Header) |-> Coerce(listed'[i])[Header[c]]]]
    /\ UNCHANGED <<ledger0, pc, req, records, resp, prev, rowIdx,
                   nFetch, nAppend, nOk>>

\* get_order_history: the fetch succeeds
GetOrderHistory(p) ==
    /\ pc[p] = "idle"
    /\ nCalls < MaxCalls
    /\ nCalls' = nCalls + 1
    /\ listed' = GetAllRecords(ledger)
    /\ listResp' = OrderHistoryResponse(ParseRows(listed', 1, <<>>))
    /\ UNCHANGED <<ledger, ledger0, pc, req, records, resp, prev, rowIdx,
                   nFetch, nAppend, nOk>>

\* get_order_history: get_gsheet() or get_all_records() raises
GetOrderHistoryFail(p, msg) ==
    /\ pc[p] = "idle"
    /\ nCalls < MaxCalls
    /\ nCalls' = nCalls + 1
    /\ listed' = <<>>
    /\ listResp' = HistoryError(msg)
    /\ UNCHANGED <<ledger, ledger0, pc, req, records, resp, prev, rowIdx,
                   nFetch, nAppend, nOk>>

Step(p) ==
    \/ \E order \in Requests : AddOrderFetch(p, order)
    \/ \E order \in Requests, msg \in FetchErrors : AddOrderFetchFail(p, order, msg)
    \/ AddOrderScanFail(p)
    \/ AddOrderAppend(p)
    \/ \E msg \in AppendErrors : AddOrderAppendFail(p, msg)
    \/ GetOrderHistory(p)
    \/ \E msg \in FetchErrors : GetOrderHistoryFail(p, msg)

Next == \E p \in Procs : Step(p)

Spec == Init /\ [][Next]_vars

\* One worker only: every call completes before the next one starts.
NextSeq == Step("w1")

SpecSeq == InitSeq /\ [][NextSeq]_vars

\* ------------------------------------------------------------ properties
Succeeded(p) == pc[p] = "idle" /\ resp[p].status = 200
Failed(p) == pc[p] = "idle" /\ resp[p].status = 500

\* The product a name text stands for, written out for the names of the model.
ProductOf(cs) ==
    CASE cs \in {Widget, WidgetLowerPadded, WidgetUpperPadded} -> "widget"
      [] cs = Gadget -> "gadget"
      [] OTHER -> "other"

SameProduct(row, order) ==
    row.product_name.t = "str" /\ ProductOf(row.product_name.s) = ProductOf(order.product_name.s)

Matching(rows, order) == {i \in 1..Len(rows) : SameProduct(rows[i], order)}

Usable(rows, order) == {i \in Matching(rows, order) : CanFloat(rows[i].price)}

Last(S) == CHOOSE i \in S : \A j \in S : j <= i

IsPrefix(a, b) == Len(a) <= Len(b) /\ SubSeq(b, 1, Len(a)) = a

\* C1: a successful add_order whose snapshot has a matching row, the last of
\* them with a numeric price other than the submitted one, returns the decimal
\* string of (submitted price - price of that LAST matching row); rows
\* Widget@10.0, Widget@12.0 and an order at 15.0 give "3.0".
LastMatchWins ==
    \A p \in Procs :
        Succeeded(p) /\ Matching(records[p], req[p]) # {} =>
            LET row == records[p][Last(Matching(records[p], req[p]))]
            IN /\ CanFloat(row.price) /\ ToFloat(row.price) # req[p].price.n =>
                    resp[p].latest_price_change = FloatStr(req[p].price.n - ToFloat(row.price))
               /\ ToFloat(row.price) = 24 /\ req[p].price.n = 30 =>
                    resp[p].latest_price_change = <<"3", ".", "0">>

\* the spec's example: Widget at 10.0, then at 12.0, order at 15.0, answer "3.0"
LastMatchWinsWitness ==
    \E p \in Procs :
        /\ Succeeded(p)
        /\ Len(records[p]) = 2
        /\ Matching(records[p], req[p]) = {1, 2}
        /\ ToFloat(records[p][1].price) = 20
        /\ ToFloat(records[p][2].price) = 24
        /\ req[p].price.n = 30
        /\ resp[p].latest_price_change = <<"3", ".", "0">>

\* C2: with one worker, an add_order that succeeds right after a successful
\* add_order for the same product at a lower price returns the positive
\* difference of the two submitted prices.
IncreasingPrices ==
    \A p \in Procs :
        /\ Succeeded(p)
        /\ prev.resp.status = 200
        /\ ProductOf(prev.req.product_name.s) = ProductOf(req[p].product_name.s)
        /\ prev.req.price.n < req[p].price.n
        => /\ resp[p].latest_price_change = FloatStr(req[p].price.n - prev.req.price.n)
           /\ resp[p].latest_price_change[1] # "-"

IncreasingPricesWitness ==
    /\ Succeeded("w1")
    /\ prev.resp.status = 200
    /\ ProductOf(prev.req.product_name.s) = ProductOf(req["w1"].product_name.s)
    /\ prev.req.price.n = 24
    /\ req["w1"].price.n = 30
    /\ resp["w1"].latest_price_change = <<"3", ".", "0">>

\* C3 (as claimed): whenever some matching row of the snapshot has a numeric
\* price, the answer is the difference to a numeric matching price, and "-"
\* only if that difference is 0, wherever the non-numeric matching rows sit.
UnparsableRowsSkipped ==
    \A p \in Procs :
        Succeeded(p) /\ Usable(records[p], req[p]) # {} =>
            \E i \in Usable(records[p], req[p]) :
                LET delta == req[p].price.n - ToFloat(records[p][i].price)
                IN resp[p].latest_price_change = (IF delta # 0 THEN FloatStr(delta) ELSE Dash)

\* C4: every step leaves the rows of the ledger where and as they are; a
\* step that answers a history request leaves the ledger as it is.
AppendOnly ==
    [][/\ IsPrefix(ledger, ledger')
       /\ (listResp' # listResp \/ listed' # listed) => ledger' = ledger]_vars

AppendOnlyWitness ==
    /\ Len(ledger0) > 0
    /\ Len(ledger) = Len(ledger0) + 1
    /\ IsPrefix(ledger0, ledger)
    /\ listResp.status = 200
    /\ listed = GetAllRecords(ledger)

\* C5: the step in which add_order fails answers 500 with the cause behind
\* "Error accessing Google Sheet: ", has made at most one fetch and one append
\* attempt, and leaves the ledger as it was.
Causes(stage) ==
    IF stage = "fetched"
    THEN AppendErrors \cup {AttributeError(IntV(0)), AttributeError(FloatV(0))}
    ELSE FetchErrors

FailureLeavesNothing ==
    [][\A p \in Procs :
          resp'[p].status = 500 /\ resp'[p] # resp[p] =>
              /\ ledger' = ledger
              /\ pc'[p] = "idle"
              /\ nFetch'[p] <= 1
              /\ nAppend'[p] <= 1
              /\ rowIdx'[p] = 0
              /\ \E cause \in Causes(pc[p]) :
                    resp'[p].detail = "Error accessing Google Sheet: " \o cause]_vars

FailureLeavesNothingWitness ==
    \E p, q \in Procs :
        /\ p # q
        /\ Failed(p)
        /\ nAppend[p] = 1
        /\ Failed(q)
        /\ nFetch[q] = 1 /\ nAppend[q] = 0 /\ records[q] = <<>>
        /\ ledger = ledger0

\* what the loop and the lines after it make of a snapshot
ChangeFrom(rows, order) ==
    IF Matching(rows, order) = {} THEN Dash
    ELSE LET row == rows[Last(Matching(rows, order))]
         IN IF CanFloat(row.price) /\ ToFloat(row.price) # order.price.n
            THEN FloatStr(order.price.n - ToFloat(row.price))
            ELSE Dash

\* C6: calls are not serialized: the row of a successful call carries the change
\* computed from the snapshot that call fetched, whatever rows other calls
\* appended between its fetch and its append.
SnapshotDecides ==
    \A p \in Procs :
        Succeeded(p) =>
            /\ rowIdx[p] \in (Len(records[p]) + 1)..Len(ledger)
            /\ ledger[rowIdx[p]][Col("latest_price_change")]
                 = StrV(ChangeFrom(records[p], req[p]))

\* the lost update: both calls fetched before either appended, q's row follows
\* p's, both are for the same product, and q's row does not carry the
\* difference to p's price
LostUpdate ==
    \E p, q \in Procs :
        /\ p # q
        /\ Succeeded(p) /\ Succeeded(q)
        /\ Len(records[p]) < rowIdx[p] /\ Len(records[q]) < rowIdx[p]
        /\ rowIdx[q] = rowIdx[p] + 1
        /\ ProductOf(req[p].product_name.s) = ProductOf(req[q].product_name.s)
        /\ req[p].price.n = 24 /\ req[q].price.n = 30
        /\ ledger[rowIdx[q]][Col("latest_price_change")] # StrV(<<"3", ".", "0">>)
        /\ ledger[rowIdx[q]][Col("latest_price_change")]
             # StrV(ChangeFrom(GetAllRecords(SubSeq(ledger, 1, rowIdx[q] - 1)), req[q]))

\* C7: a history request whose fetch succeeds returns exactly the fetched rows
\* that validate, each with its latest_price_change as a string, in the order
\* of the worksheet; no rows give no orders.
Coerced(rows) == [i \in 1..Len(rows) |-> Coerce(rows[i])]

HistoryIsValidRows ==
    listResp.status = 200 =>
        LET valid == SelectSeq(Coerced(listed), Validates)
        IN /\ listResp.orders = [i \in 1..Len(valid) |-> OrderHistoryItem(valid[i])]
           /\ \A i \in 1..Len(listResp.orders) :
                 listResp.orders[i].latest_price_change.t = "str"
           /\ listed = <<>> => listResp.orders = <<>>

HistoryIsValidRowsWitness ==
    /\ listResp.status = 200
    /\ Len(listed) = 3
    /\ ~Validates(Coerce(listed[1]))
    /\ listed[2].latest_price_change.t # "str"
    /\ Validates(Coerce(listed[2]))
    /\ Validates(Coerce(listed[3]))
    /\ Len(listResp.orders) = 2
    /\ listResp.orders[1].latest_price_change = StrV(<<"2", ".", "0">>)

\* C8: a successful add_order whose price is that of the last matching row
\* returns "-" and has appended its row, with "-" in it.
EqualPriceDash ==
    \A p \in Procs :
        /\ Succeeded(p)
        /\ Matching(records[p], req[p]) # {}
        /\ LET row == records[p][Last(Matching(records[p], req[p]))]
           IN CanFloat(row.price) /\ ToFloat(row.price) = req[p].price.n
        => /\ resp[p].latest_price_change = Dash
           /\ rowIdx[p] \in 1..Len(ledger)
           /\ ledger[rowIdx[p]] = RowValues(req[p], Dash)

EqualPriceDashWitness ==
    \E p \in Procs :
        /\ Succeeded(p)
        /\ Matching(records[p], req[p]) # {}
        /\ ToFloat(records[p][Last(Matching(records[p], req[p]))].price) = req[p].price.n
        /\ CanFloat(records[p][Last(Matching(records[p], req[p]))].price)
        /\ ledger[rowIdx[p]][Col("latest_price_change")] = StrV(Dash)

\* C9: a row matches an order exactly when the two names are the same product
\* after strip and lower, and an order no row matches gets "-".
MatchIsNormalized ==
    \A p \in Procs :
        Succeeded(p) =>
            /\ \A i \in 1..Len(records[p]) :
                  NameMatches(records[p][i], req[p]) <=> SameProduct(records[p][i], req[p])
            /\ Matching(records[p], req[p]) = {} => resp[p].latest_price_change = Dash

MatchIsNormalizedWitness ==
    \E p \in Procs :
        /\ Succeeded(p)
        /\ Len(records[p]) = 2
        /\ records[p][1].product_name.s = Widget
        /\ records[p][2].product_name.s = Gadget
        /\ req[p].product_name.s = WidgetLowerPadded
        /\ req[p].price.n = 24
        /\ resp[p].latest_price_change = <<"2", ".", "0">>

\* C10: a successful add_order has put one row after those it fetched, the
\* submitted fields in the column order of the header and the returned
\* latest_price_change last; a step that lengthens the ledger appends one such
\* row at the end; the ledger has grown by one row per success.
Appended ==
    /\ [](/\ Len(ledger) = Len(ledger0) + nOk
          /\ \A p \in Procs :
                Succeeded(p) =>
                    /\ rowIdx[p] \in (Len(records[p]) + 1)..Len(ledger)
                    /\ ledger[rowIdx[p]] =
                         <<req[p].product_name, req[p].supplier, req[p].price,
                           req[p].quantity, req[p].purchase_date,
                           req[p].staff_in_charge, req[p].approver,
                           StrV(resp[p].latest_price_change)>>)
    /\ [][ledger' # ledger =>
            \E p \in Procs :
                /\ resp'[p].status = 200
                /\ nOk' = nOk + 1
                /\ rowIdx'[p] = Len(ledger) + 1
                /\ Len(ledger') = Len(ledger) + 1
                /\ IsPrefix(ledger, ledger')]_vars

AppendedWitness ==
    /\ nOk = 2
    /\ Len(ledger) = Len(ledger0) + 2
    /\ \A p \in Procs : Succeeded(p) /\ rowIdx[p] > Len(ledger0)
    /\ \E p \in Procs : resp[p].latest_price_change # Dash
====
